---- MODULE Spec2Model ----
(***************************************************************************)
(* Monsoon-index toolkit: the threshold edge detector (wang_linho,         *)
(* kitoh_uchiyama), the harmonic smoother (smooth_data and its inlined     *)
(* copies), the longitude selection of the region reducers (yim_precip,    *)
(* yim_vort), the cell-area grid check and the pressure-unit handling of   *)
(* the public entry points, conditions A and B of li_zhang, and the onset  *)
(* scans of scsm_onset and gao_onset.                                      *)
(*                                                                         *)
(* Each component is a pure function of its arguments, so each has its own *)
(* specification: Init draws the arguments from bounded sets and one       *)
(* action per entry point applies the function and records what it         *)
(* returns.                                                                *)
(***************************************************************************)
EXTENDS Integers, Sequences, FiniteSets, TLC

VARIABLES
    p_shape,       \* detector: <<L, nlat, nlon>>, the shape of p_pentad
    p_pentad,      \* detector: input field, axes (pentad, lat, lon)
    p_month,       \* detector: wang_linho's reference-month mean
    p_dims,        \* detector: the order of p_pentad's axes, by name
    det,           \* detector: what the call returned, or NotCalled
    var_in,        \* smoother: the input series of one cell, as its DFT
    sm,            \* smoother: what the call computed, or NotCalled
    u_lat,         \* reducers: the field's latitude coordinate
    u_lon,         \* reducers: the field's longitude coordinate
    u_plev,        \* reducers: [in_dims, punits], the pressure axis and unit
    areacell,      \* reducers: the cell-area grid argument, or none given
    red,           \* reducers: what the call did and returned, or NotCalled
    lz_in,         \* li_zhang: one cell's onset and withdrawal seasons
    lz,            \* li_zhang: what conditions A and B gave, or NotCalled
    scan_in,       \* onset scans: the area-mean series and its pentad labels
    scan           \* onset scans: what the scan returned, or NotCalled

detVars == <<p_shape, p_pentad, p_month, p_dims, det>>
smVars == <<var_in, sm>>
redVars == <<u_lat, u_lon, u_plev, areacell, red>>
lzVars == <<lz_in, lz>>
scanVars == <<scan_in, scan>>

vars == <<detVars, smVars, redVars, lzVars, scanVars>>

NotCalled == "not called"

(***************************************************************************)
(* Bounds and program constants                                            *)
(***************************************************************************)
MaxLen == 3                 \* longest pentad axis of the detector's input
MaxSmoothLen == 26          \* longest time axis of the smoother's input
MaxOffset == 1              \* the grid's first longitude is shifted by 0..MaxOffset steps of 5 degrees

RainThreshold == 5          \* wang_linho: masked_less(rain_rel, 5)
NpiThresholdMilli == 618    \* kitoh_uchiyama: masked_less(npi, 0.618)
NHarmonics == 12            \* the slice x[12:-12] of the smoother

(***************************************************************************)
(* Floats.  A float is a rational [num, den] with den > 0, or NaN (numpy's *)
(* 0/0), or -inf (the fill value of a masked float array).                 *)
(***************************************************************************)
Rat(n, d) == [num |-> n, den |-> d]
F(n) == Rat(n, 1)
NaN == Rat(0, 0)
NegInf == Rat(-1, 0)
IsNaN(v) == v = NaN
IsNum(v) == v.den > 0

\* numpy's x < y on floats: false when either side is NaN
Less(a, b) ==
    IF IsNaN(a) \/ IsNaN(b) THEN FALSE
    ELSE IF a = NegInf THEN b # NegInf
    ELSE IF b = NegInf THEN FALSE
    ELSE a.num * b.den < b.num * a.den

Sub_Reversed(a, b) == IF a = Rat(0, 0) \/ b = Rat(0, 0) THEN Rat(0, 0) ELSE Rat(b.num - a.num, 1)

\* x - y on floats that are integers or NaN
Sub(a, b) == IF IsNaN(a) \/ IsNaN(b) THEN NaN ELSE F(a.num - b.num)

Min(S) == CHOOSE x \in S : \A y \in S : x <= y
Max(S) == CHOOSE x \in S : \A y \in S : x >= y

(***************************************************************************)
(* Arrays.  A 3-d array of shape sh = <<d0, d1, d2>> is a function on      *)
(* Idx3(sh); a 2-d array of shape <<d1, d2>> is a function on Idx2(d1,d2). *)
(* Indices are zero-based as in numpy.                                     *)
(***************************************************************************)
Idx3(sh) == (0..(sh[1]-1)) \X (0..(sh[2]-1)) \X (0..(sh[3]-1))
Idx2(d1, d2) == (0..(d1-1)) \X (0..(d2-1))

\* the zero-based indices x[12:-12] assigns to in an axis of length L
\* (python slice: start clipped to L, a negative stop counted from the end)
ZeroedIdx(L) ==
    LET start == IF NHarmonics > L THEN L ELSE NHarmonics
        stop  == IF L - NHarmonics < 0 THEN 0 ELSE L - NHarmonics
    IN  {k \in 0..(L-1) : start <= k /\ k < stop}

(***************************************************************************)
(* Threshold edge detector                                                 *)
(***************************************************************************)
\* rain_rel = p_pentad - p_month, p_month broadcast along the pentad axis
RainRel(sh, pp, pm) ==
    [c \in Idx3(sh) |-> F(pp[c] - pm[<<c[2], c[3]>>])]

\* npi = (p_smooth - min) / (max - min), min and max along the pentad axis
Npi(sh, ps) ==
    [c \in Idx3(sh) |->
        LET col == {ps[<<i, c[2], c[3]>>] : i \in 0..(sh[1]-1)}
        IN  IF Max(col) = Min(col) THEN NaN
            ELSE Rat(ps[c] - Min(col), Max(col) - Min(col))]

\* np.ma.masked_less(x, value): the mask is x < value, elementwise
masked_less(sh, x, value) == [c \in Idx3(sh) |-> Less(x[c], value)]

\* the cells (j, k) of the last two axes in row-major order
RowMajor(d1, d2) == [n \in 1..(d1*d2) |-> <<(n-1) \div d2, (n-1) % d2>>]

NotMasked(sh, m, j, k) == {i \in 0..(sh[1]-1) : ~m[<<i, j, k>>]}

\* np.ma.notmasked_edges(a, axis=0): two triples of index arrays, the first
\* and the last unmasked position along axis 0 of every column that has one
notmasked_edges(sh, m) ==
    LET HasOne(c) == NotMasked(sh, m, c[1], c[2]) # {}
        cells == SelectSeq(RowMajor(sh[2], sh[3]), HasOne)
        n == Len(cells)
    IN  << << [x \in 1..n |-> Min(NotMasked(sh, m, cells[x][1], cells[x][2]))],
              [x \in 1..n |-> cells[x][1]],
              [x \in 1..n |-> cells[x][2]] >>,
           << [x \in 1..n |-> Max(NotMasked(sh, m, cells[x][1], cells[x][2]))],
              [x \in 1..n |-> cells[x][1]],
              [x \in 1..n |-> cells[x][2]] >> >>

\* the loop "for i in range(len(edge[1])): out[edge[1][i], edge[2][i]] =
\* edge[0][i] + 1" run on an nlat x nlon array of NaN
ExtractEdges(edge, nlat, nlon) ==
    [c \in Idx2(nlat, nlon) |->
        LET hits == {x \in 1..Len(edge[2]) : <<edge[2][x], edge[3][x]>> = c}
        IN  IF hits = {} THEN NaN ELSE F(edge[1][Max(hits)] + 1)]

\* MaskedArray.argmax(axis=0): numpy's argmax of the array filled with -inf;
\* the first NaN if the column holds one, else the first maximum
ArgMax(sh, x, m, j, k) ==
    LET filled(i) == IF m[<<i, j, k>>] THEN NegInf ELSE x[<<i, j, k>>]
        I == 0..(sh[1]-1)
        nans == {i \in I : IsNaN(filled(i))}
        tops == {i \in I : \A i2 \in I : ~Less(filled(i), filled(i2))}
    IN  IF nans # {} THEN Min(nans) ELSE Min(tops)

PeakPentad_NoWhere(sh, x, m) ==
    [c \in Idx2(sh[2], sh[3]) |-> F(ArgMax(sh, x, m, c[1], c[2]) + 1)]

\* peak_pentad = argmax + 1., then peak_pentad.where(peak_pentad != 1.)
PeakPentad(sh, x, m) ==
    [c \in Idx2(sh[2], sh[3]) |->
        LET pk == ArgMax(sh, x, m, c[1], c[2]) + 1
        IN  IF pk # 1 THEN F(pk) ELSE NaN]

\* lines 42-61 of wang_linho / 45-64 of kitoh_uchiyama on the field x
Detect(sh, x, threshold) ==
    LET m == masked_less(sh, x, threshold)
        onset_index == notmasked_edges(sh, m)
        onset == ExtractEdges(onset_index[1], sh[2], sh[3])
        withdrawal == ExtractEdges(onset_index[2], sh[2], sh[3])
    IN  [onset |-> onset,
         withdrawal |-> withdrawal,
         peak |-> PeakPentad(sh, x, m),
         duration |-> [c \in Idx2(sh[2], sh[3]) |-> Sub(withdrawal[c], onset[c])],
         fn |-> "?"]

\* the order of the axes of the array p_pentad.values
PentadFirst == <<"pentad", "lat", "lon">>
AxisOrders ==
    {d \in [1..3 -> {"pentad", "lat", "lon"}] : \A k1, k2 \in 1..3 : d[k1] = d[k2] => k1 = k2}
AxisOf(dims, name) == CHOOSE k \in 1..3 : dims[k] = name

\* the shape of .values for a field of len(pentad), len(lat), len(lon) = sh
ShapeAs(dims, sh) ==
    [k \in 1..3 |-> sh[AxisOf(PentadFirst, dims[k])]]

\* .values of the field x (given on (pentad, lat, lon)) laid out as dims
ValuesAs(dims, sh, x) ==
    [c \in Idx3(ShapeAs(dims, sh)) |->
        x[<<c[AxisOf(dims, "pentad")] , c[AxisOf(dims, "lat")], c[AxisOf(dims, "lon")]>>]]

Raised(exc) ==
    [onset |-> <<>>, withdrawal |-> <<>>, peak |-> <<>>, duration |-> <<>>,
     fn |-> "?", raised |-> exc]

\* lines 42-61 of wang_linho / 45-64 of kitoh_uchiyama on a field whose
\* array has its axes in the order dims: the edges are taken along axis 0,
\* the output arrays have the shape (len(lat), len(lon)) and are indexed by
\* the positions along axes 1 and 2
DetectValues(dims, sh, x, threshold) ==
    LET shp == ShapeAs(dims, sh)
        values == ValuesAs(dims, sh, x)
        onset_index == notmasked_edges(shp, masked_less(shp, values, threshold))
        nlat == sh[2]
        nlon == sh[3]
        edge == onset_index[1]
        OutOfRange == \E n \in 1..Len(edge[2]) : edge[2][n] >= nlat \/ edge[3][n] >= nlon
    IN  \* onset[ onset_index[0][1][i], onset_index[0][2][i] ] = ...
        IF OutOfRange THEN Raised("IndexError")
        \* xr.DataArray(argmax(axis=0) + 1., [(latdim, ...), (londim, ...)])
        ELSE IF <<shp[2], shp[3]>> # <<nlat, nlon>> THEN Raised("ValueError")
        ELSE LET r == Detect(shp, values, threshold)
             IN  [onset |-> r.onset, withdrawal |-> r.withdrawal, peak |-> r.peak,
                  duration |-> r.duration, fn |-> r.fn, raised |-> ""]

\* the variables of the components a specification leaves alone
DetIdle ==
    /\ p_shape = <<0, 0, 0>> /\ p_pentad = <<>> /\ p_month = <<>>
    /\ p_dims = <<>>
    /\ det = [fn |-> NotCalled]
SmIdle == var_in = [L |-> 0, X |-> <<>>] /\ sm = [fn |-> NotCalled]
RedIdle ==
    /\ u_lat = <<>> /\ u_lon = <<>> /\ u_plev = [in_dims |-> FALSE, punits |-> "Pa"]
    /\ areacell = [given |-> FALSE]
    /\ red = [fn |-> NotCalled]
LzIdle == lz_in = [p |-> 0] /\ lz = [fn |-> NotCalled]
ScanIdle == scan_in = [pentad |-> <<>>] /\ scan = [fn |-> NotCalled]

(***************************************************************************)
(* Detector: inputs and entry points                                       *)
(***************************************************************************)
PentadVals == {5, 7, 8}
MonthVals == {0, 2}
GridShapes == {<<1, 2>>, <<2, 1>>}

\* An axis no longer than 2*12 has an empty slice x[12:-12]: the smoother
\* zeroes no coefficient and returns the series it was given.
SmoothIsExact(L) == ZeroedIdx(L) = {}

\* p_pentad and p_month, as fields on (pentad, lat, lon) and (lat, lon)
DetInputs ==
    \E L \in 1..MaxLen, g \in GridShapes :
        /\ SmoothIsExact(L)
        /\ p_shape = <<L, g[1], g[2]>>
        /\ p_pentad \in [Idx3(<<L, g[1], g[2]>>) -> PentadVals]
        /\ \E v \in MonthVals : p_month = [c \in Idx2(g[1], g[2]) |-> v]

\* the input's array has the pentad axis first
InitDetect ==
    /\ DetInputs
    /\ p_dims = PentadFirst
    /\ det = [fn |-> NotCalled]
    /\ SmIdle /\ RedIdle /\ LzIdle /\ ScanIdle

wang_linho ==
    /\ det.fn = NotCalled
    /\ det' = [DetectValues(p_dims, p_shape, RainRel(p_shape, p_pentad, p_month),
                            F(RainThreshold)) EXCEPT !.fn = "wang_linho"]
    /\ UNCHANGED <<p_shape, p_pentad, p_month, p_dims, smVars, redVars, lzVars, scanVars>>

kitoh_uchiyama ==
    /\ det.fn = NotCalled
    /\ det' = [DetectValues(p_dims, p_shape, Npi(p_shape, p_pentad),
                            Rat(NpiThresholdMilli, 1000)) EXCEPT !.fn = "kitoh_uchiyama"]
    /\ UNCHANGED <<p_shape, p_pentad, p_month, p_dims, smVars, redVars, lzVars, scanVars>>

NextDetect == wang_linho \/ kitoh_uchiyama

SpecDetect == InitDetect /\ [][NextDetect]_vars

\* the input's array has its axes in any order
InitPermute ==
    /\ DetInputs
    /\ p_dims \in AxisOrders
    /\ det = [fn |-> NotCalled]
    /\ SmIdle /\ RedIdle /\ LzIdle /\ ScanIdle

SpecPermute == InitPermute /\ [][NextDetect]_vars

(***************************************************************************)
(* Detector: the claims                                                    *)
(***************************************************************************)
DetCalled == det.fn # NotCalled
DetL == p_shape[1]
DetCells == Idx2(p_shape[2], p_shape[3])

\* the series a call thresholds, and its threshold
DetField ==
    IF det.fn = "wang_linho" THEN RainRel(p_shape, p_pentad, p_month)
    ELSE Npi(p_shape, p_pentad)
DetT == IF det.fn = "wang_linho" THEN F(RainThreshold) ELSE Rat(NpiThresholdMilli, 1000)
DetAt(i, c) == DetField[<<i, c[1], c[2]>>]

\* x > T, and "not masked": not (x < T)
Exceeds(v, t) == Less(t, v)
ExceedIdx(c) == {i \in 0..(DetL-1) : Exceeds(DetAt(i, c), DetT)}
UnmaskedIdx(c) == {i \in 0..(DetL-1) : ~Less(DetAt(i, c), DetT)}

\* C1: a cell whose thresholded series never exceeds T has onset, withdrawal
\* and duration NaN; a cell whose series exceeds T at every index has
\* onset = 1 and withdrawal = L.
C1_NeverAlways ==
    DetCalled =>
        \A c \in DetCells :
            /\ ExceedIdx(c) = {} =>
                  /\ det.onset[c] = NaN
                  /\ det.withdrawal[c] = NaN
                  /\ det.duration[c] = NaN
            /\ ExceedIdx(c) = 0..(DetL-1) =>
                  /\ det.onset[c] = F(1)
                  /\ det.withdrawal[c] = F(DetL)

\* C2: onset is 1 + the first index whose value exceeds T, withdrawal is
\* 1 + the last such index, and no index whose value does not exceed T
\* (a value equal to T included) is reported as either.
C2_FirstLastExceeding ==
    DetCalled =>
        \A c \in DetCells :
            /\ ExceedIdx(c) # {} =>
                  /\ det.onset[c] = F(Min(ExceedIdx(c)) + 1)
                  /\ det.withdrawal[c] = F(Max(ExceedIdx(c)) + 1)
            /\ IsNum(det.onset[c]) => (det.onset[c].num - 1) \in ExceedIdx(c)
            /\ IsNum(det.withdrawal[c]) => (det.withdrawal[c].num - 1) \in ExceedIdx(c)

\* C3: peak is 1 + the index of the (first) maximum among the unmasked
\* entries of the cell's series, a peak of 1 being replaced by NaN; a cell
\* with no unmasked entry has peak NaN.
C3_Peak ==
    DetCalled =>
        \A c \in DetCells :
            LET U == UnmaskedIdx(c)
                best == {i \in U : \A i2 \in U : ~Less(DetAt(i, c), DetAt(i2, c))}
            IN  IF U = {} THEN det.peak[c] = NaN
                ELSE IF Min(best) = 0 THEN det.peak[c] = NaN
                ELSE det.peak[c] = F(Min(best) + 1)

\* a cell whose maximum is not at its first unmasked entry, next to a cell
\* with no unmasked entry
C3_Witness ==
    /\ DetCalled
    /\ \E c \in DetCells :
          /\ IsNum(det.onset[c]) /\ IsNum(det.peak[c])
          /\ det.peak[c].num > det.onset[c].num
    /\ \E c \in DetCells : UnmaskedIdx(c) = {} /\ det.peak[c] = NaN

\* C15: in kitoh_uchiyama, a cell whose series is constant along the pentad
\* axis (max = min) has onset, withdrawal and duration NaN.
C15_ConstantCellUndefined ==
    (DetCalled /\ det.fn = "kitoh_uchiyama") =>
        \A c \in DetCells :
            (\A i \in 0..(DetL-1) : p_pentad[<<i, c[1], c[2]>>] = p_pentad[<<0, c[1], c[2]>>]) =>
                /\ det.onset[c] = NaN
                /\ det.withdrawal[c] = NaN
                /\ det.duration[c] = NaN

\* 1 <= onset <= withdrawal <= L and duration = withdrawal - onset >= 0
OrderedSeason(c) ==
    /\ IsNum(det.withdrawal[c])
    /\ 1 <= det.onset[c].num
    /\ det.onset[c].num <= det.withdrawal[c].num
    /\ det.withdrawal[c].num <= DetL
    /\ det.duration[c] = F(det.withdrawal[c].num - det.onset[c].num)
    /\ det.duration[c].num >= 0
NoSeason(c) ==
    det.withdrawal[c] = NaN /\ det.peak[c] = NaN /\ det.duration[c] = NaN

\* C20 as stated: a cell with a defined onset has a defined withdrawal and a
\* defined peak with 1 <= onset <= peak <= withdrawal <= L and duration =
\* withdrawal - onset >= 0; a cell with undefined onset has withdrawal, peak
\* and duration undefined.
C20_OnsetPeakWithdrawal ==
    DetCalled =>
        \A c \in DetCells :
            IF IsNum(det.onset[c])
            THEN /\ OrderedSeason(c)
                 /\ IsNum(det.peak[c])
                 /\ det.onset[c].num <= det.peak[c].num
                 /\ det.peak[c].num <= det.withdrawal[c].num
            ELSE NoSeason(c)

\* C20 as amended: a cell with a defined onset has a defined withdrawal with
\* 1 <= onset <= withdrawal <= L and duration = withdrawal - onset >= 0, and
\* its peak is undefined or lies in onset..withdrawal; a cell with undefined
\* onset has withdrawal, peak and duration undefined.
C20_OnsetWithdrawalOrdered ==
    DetCalled =>
        \A c \in DetCells :
            IF IsNum(det.onset[c])
            THEN /\ OrderedSeason(c)
                 /\ \/ det.peak[c] = NaN
                    \/ /\ IsNum(det.peak[c])
                       /\ det.onset[c].num <= det.peak[c].num
                       /\ det.peak[c].num <= det.withdrawal[c].num
            ELSE NoSeason(c)

\* a season of more than one pentad whose maximum is at pentad 1, so that
\* its peak is undefined, next to a cell with no season
C20_Witness ==
    /\ DetCalled
    /\ \E c \in DetCells :
          /\ det.onset[c] = F(1) /\ IsNum(det.withdrawal[c])
          /\ det.withdrawal[c].num > 1
          /\ det.duration[c].num > 0
          /\ det.peak[c] = NaN
    /\ \E c \in DetCells : det.onset[c] = NaN /\ NoSeason(c)

\* what the call returns for the same field with the pentad axis first
PentadFirstResult == Detect(p_shape, DetField, DetT)

\* C16: for every order of the input's three axes the call returns, and
\* every cell's onset, withdrawal and peak are those found along the pentad
\* axis of that cell, stored at the cell's (lat, lon) position.
C16_AxisOrderIndependent ==
    DetCalled =>
        /\ det.raised = ""
        /\ \A c \in DetCells :
              /\ det.onset[c] = PentadFirstResult.onset[c]
              /\ det.withdrawal[c] = PentadFirstResult.withdrawal[c]
              /\ det.peak[c] = PentadFirstResult.peak[c]

(***************************************************************************)
(* Harmonic smoother.                                                      *)
(*                                                                         *)
(* The smoother is linear, so it is modelled on the DFT of one cell's      *)
(* series: X[k], k in 0..L-1, exact complex numbers [re, im, den].  A real *)
(* series is one whose DFT is Hermitian, X[(L-k) % L] = conj(X[k]); its    *)
(* mean is X[0] / L.                                                       *)
(***************************************************************************)
Cx(r, i, d) == [re |-> r, im |-> i, den |-> d]
CZero == Cx(0, 0, 1)
CAdd(a, b) == Cx(a.re * b.den + b.re * a.den, a.im * b.den + b.im * a.den, a.den * b.den)
CSub(a, b) == Cx(a.re * b.den - b.re * a.den, a.im * b.den - b.im * a.den, a.den * b.den)
CConj(a) == Cx(a.re, 0 - a.im, a.den)
CHalf(a) == Cx(a.re, a.im, 2 * a.den)
CIsZero(a) == a.re = 0 /\ a.im = 0
CEq(a, b) == a.re * b.den = b.re * a.den /\ a.im * b.den = b.im * a.den

Mirror(L, k) == (L - k) % L
Hermitian(L, X) == \A k \in 0..(L-1) : CEq(X[Mirror(L, k)], CConj(X[k]))

\* var_in.mean(timedim), as a complex number: X[0] / L
TimeMean(L, X) == Cx(X[0].re, X[0].im, X[0].den * L)

\* the DFT of (series - m): a constant m has DFT L*m at index 0
SubtractMean(L, X, m) ==
    [k \in 0..(L-1) |-> IF k = 0 THEN CSub(X[0], Cx(L * m.re, L * m.im, m.den)) ELSE X[k]]

\* var_fft[12:-12] = 0 along the time axis, whichever of the three
\* branches (axisno = 0, 1, 2) applies
ZeroHarmonics(L, X, axisno) ==
    IF axisno \in {0, 1, 2}
    THEN [k \in 0..(L-1) |-> IF k \in ZeroedIdx(L) THEN CZero ELSE X[k]]
    ELSE X

\* the DFT of ifft(Z).real: (Z[k] + conj(Z[-k])) / 2
RealPart(L, Z) == [k \in 0..(L-1) |-> CHalf(CAdd(Z[k], CConj(Z[Mirror(L, k)])))]

AddMean_Dropped(L, Y, m) == Y

\* the DFT of (series + m)
AddMean(L, Y, m) ==
    [k \in 0..(L-1) |-> IF k = 0 THEN CAdd(Y[0], Cx(L * m.re, L * m.im, m.den)) ELSE Y[k]]

\* smooth_data, lines 42-56
Smooth(L, X, axisno) ==
    LET var_mean == TimeMean(L, X)
        var_fft == ZeroHarmonics(L, SubtractMean(L, X, var_mean), axisno)
    IN  [fn |-> "smooth_data",
         axisno |-> axisno,
         var_fft |-> var_fft,
         var_smooth |-> AddMean(L, RealPart(L, var_fft), var_mean)]

(***************************************************************************)
(* Smoother: inputs and entry point                                        *)
(***************************************************************************)
SmoothLens == {3, 13, 24} \cup (25..MaxSmoothLen)
SumVals == {0, 3}
CoefVals == {<<1, 0>>, <<1, 2>>}

\* the DFT of the real series with sum s and the harmonics h1, h2 (0: none)
\* at the amplitudes c1, c2
RealSeriesDFT(L, s, h1, c1, h2, c2) ==
    LET Part(h, c, k) ==
            IF h = 0 \/ k = 0 THEN CZero
            ELSE CAdd(IF k = h THEN Cx(c[1], c[2], 1) ELSE CZero,
                      IF k = L - h THEN Cx(c[1], 0 - c[2], 1) ELSE CZero)
    IN  [k \in 0..(L-1) |->
            IF k = 0 THEN Cx(s, 0, 1) ELSE CAdd(Part(h1, c1, k), Part(h2, c2, k))]

InitSmooth ==
    /\ \E L \in SmoothLens, s \in SumVals, c1 \in CoefVals, c2 \in CoefVals :
       \E h1 \in 0..(L \div 2), h2 \in 0..(L \div 2) :
          var_in = [L |-> L, X |-> RealSeriesDFT(L, s, h1, c1, h2, c2)]
    /\ sm = [fn |-> NotCalled]
    /\ DetIdle /\ RedIdle /\ LzIdle /\ ScanIdle

smooth_data ==
    /\ sm.fn = NotCalled
    /\ \E axisno \in 0..2 : sm' = Smooth(var_in.L, var_in.X, axisno)
    /\ UNCHANGED <<var_in, detVars, redVars, lzVars, scanVars>>

NextSmooth == smooth_data

SpecSmooth == InitSmooth /\ [][NextSmooth]_vars

SmCalled == sm.fn # NotCalled
SmL == var_in.L
\* the frequency indices [0,12) and [L-12,L)
InBand(L, k) == (0 <= k /\ k < NHarmonics) \/ (L - NHarmonics <= k /\ k < L)
Retained(L) == (0..(L-1)) \ ZeroedIdx(L)

\* C4: the DFT of the smoother's output is zero at every frequency index
\* outside [0,12) and [L-12,L).
C4_SpectralTruncation ==
    SmCalled => \A k \in 0..(SmL-1) : ~InBand(SmL, k) => CIsZero(sm.var_smooth[k])

\* C5: the retained frequency indices are symmetric (k is retained exactly
\* when (L-k) mod L is), so the inverse transform of the truncated spectrum
\* of a real input is real.
C5_SymmetricBand ==
    SmCalled =>
        /\ \A k \in 0..(SmL-1) : (k \in Retained(SmL)) <=> (Mirror(SmL, k) \in Retained(SmL))
        /\ Hermitian(SmL, sm.var_fft)

\* C6: the time mean of the smoother's output equals the time mean of its
\* input.
C6_MeanPreserved ==
    SmCalled => CEq(TimeMean(SmL, sm.var_smooth), TimeMean(SmL, var_in.X))

\* a series with a non-zero mean that loses a harmonic to the filter
C6_Witness ==
    /\ SmCalled
    /\ ~CIsZero(var_in.X[0])
    /\ \E k \in ZeroedIdx(SmL) : ~CIsZero(var_in.X[k]) /\ CIsZero(sm.var_smooth[k])

(***************************************************************************)
(* Region reducers and the other public entry points.                      *)
(* Coordinates are in thousandths of a degree.                             *)
(***************************************************************************)
Deg(x) == 1000 * x
\* [[None, None], [None, None]], the box that is absent
NoBox == <<>>
PunitsError == "Error, punits not recognised"
AreaWarning == "Warning, cell area dimensions do not match, defaulting to using cosine weighted averaging"

SeqMin(q) == Min({q[i] : i \in DOMAIN q})

\* yim_etal_2014_precip.regions: [[lata, latb], [lona, lonb]]
regions_precip ==
    [IN  |-> << <<Deg(10), Deg(30)>>,  <<Deg(70), Deg(105)>> >>,
     WNP |-> << <<12500, 22500>>,      <<Deg(110), Deg(150)>> >>,
     EA  |-> << <<22500, Deg(45)>>,    <<Deg(110), Deg(135)>> >>,
     NAM |-> << <<7500, 22500>>,       <<Deg(250), Deg(280)>> >>,
     NAF |-> << <<Deg(5), Deg(15)>>,   <<Deg(330), Deg(30)>> >>,
     SAM |-> << <<Deg(-25), Deg(-5)>>, <<Deg(290), Deg(320)>> >>,
     SAF |-> << <<Deg(-25), -7500>>,   <<Deg(25), Deg(70)>> >>,
     AUS |-> << <<Deg(-20), Deg(-5)>>, <<Deg(110), Deg(150)>> >>]

\* yim_etal_2014_vorticity.regions: two boxes, NAFSM's second one absent
regions_vort ==
    [ISM   |-> << << <<Deg(5), Deg(15)>>,    <<Deg(40), Deg(80)>> >>,
                  << <<Deg(25), Deg(35)>>,   <<Deg(70), Deg(90)>> >> >>,
     WNPSM |-> << << <<Deg(5), Deg(15)>>,    <<Deg(100), Deg(130)>> >>,
                  << <<Deg(20), Deg(35)>>,   <<Deg(110), Deg(140)>> >> >>,
     NASM  |-> << << <<Deg(5), Deg(15)>>,    <<Deg(230), Deg(260)>> >>,
                  << <<Deg(20), Deg(30)>>,   <<Deg(250), Deg(280)>> >> >>,
     NAFSM |-> << << <<Deg(0), Deg(15)>>,    <<Deg(300), Deg(350)>> >>,
                  NoBox >>,
     SASM  |-> << << <<Deg(-20), Deg(-5)>>,  <<Deg(290), Deg(320)>> >>,
                  << <<Deg(-35), Deg(-20)>>, <<Deg(290), Deg(320)>> >> >>,
     SAFSM |-> << << <<Deg(-15), Deg(-5)>>,  <<Deg(20), Deg(50)>> >>,
                  << <<Deg(-30), Deg(-20)>>, <<Deg(30), Deg(55)>> >> >>,
     AUSSM |-> << << <<Deg(-15), Deg(0)>>,   <<Deg(90), Deg(130)>> >>,
                  << <<Deg(-30), Deg(-20)>>, <<Deg(100), Deg(140)>> >> >>]

\* python's "region is not 'KEY'": an identity test, true of an equal string
\* that is another object than the literal
IsNot(region, literal, same_object) == ~(region = literal /\ same_object)

\* [x for x in coord if x >= a and x <= b] and its "or" form
SelAnd(coord, a, b) == SelectSeq(coord, LAMBDA x : x >= a /\ x <= b)
SelOr(coord, a, b) == SelectSeq(coord, LAMBDA x : x >= a \/ x <= b)

Box(lons, lats, a, b) == [lons |-> lons, lats |-> lats, lona |-> a, lonb |-> b]

\* the pressure-level block of the entry points and of rename_coords:
\* ok = FALSE is the bare "return" after the diagnostic
PlevSelect(plev) ==
    IF ~plev.in_dims THEN [ok |-> TRUE, notices |-> {}]
    ELSE IF plev.punits \in {"Pa", "hPa"} THEN [ok |-> TRUE, notices |-> {}]
    ELSE [ok |-> FALSE, notices |-> {PunitsError}]

RoundsToZero_OneDecimal(d, tie_up) ==
    LET m == IF d < 0 THEN 0 - d ELSE d
    IN  m < 50 \/ (m = 50 /\ ~tie_up)

\* np.round(d, 2) == 0 for a difference d in thousandths.  A difference of
\* exactly 5 thousandths has no binary representation: the float nearest to
\* it rounds to 0.00 or to 0.01 (tie_up).
RoundsToZero(d, tie_up) ==
    LET m == IF d < 0 THEN 0 - d ELSE d
    IN  m < 5 \/ (m = 5 /\ ~tie_up)

\* the "if areacell is not None" block: which weights the mean uses
AreaWeights(area, lat, lon, tie_up) ==
    IF ~area.given THEN [weights |-> "coslat", notices |-> {}]
    ELSE LET same_len == Len(area.lat) = Len(lat) /\ Len(area.lon) = Len(lon)
             latsame == same_len /\ \A i \in DOMAIN lat : RoundsToZero(area.lat[i] - lat[i], tie_up)
             lonsame == same_len /\ \A i \in DOMAIN lon : RoundsToZero(area.lon[i] - lon[i], tie_up)
         IN  IF latsame /\ lonsame THEN [weights |-> "areacell", notices |-> {}]
             ELSE [weights |-> "coslat", notices |-> {AreaWarning}]

Result(fn, region, raised, returned, notices, weights, sel) ==
    [fn |-> fn, region |-> region, raised |-> raised, returned |-> returned,
     notices |-> notices, weights |-> weights, sel |-> sel]
ReturnNone(fn, region, notices) == Result(fn, region, "", "None", notices, "-", <<>>)
Raise(fn, region, exc, notices) == Result(fn, region, exc, "-", notices, "-", <<>>)

\* wang_fan, lines 30-79
WangFan(lat, lon, plev, area, tie_up) ==
    LET lev == PlevSelect(plev)
        w == AreaWeights(area, lat, lon, tie_up)
    IN  IF ~lev.ok THEN ReturnNone("wang_fan", "-", lev.notices)
        ELSE Result("wang_fan", "-", "", "value", lev.notices \cup w.notices, w.weights,
                    << Box(SelAnd(lon, Deg(90), Deg(130)), SelAnd(lat, Deg(5), Deg(15)),
                           Deg(90), Deg(130)),
                       Box(SelAnd(lon, Deg(110), Deg(140)), SelAnd(lat, 22500, 32500),
                           Deg(110), Deg(140)) >>)

\* scsm_onset, lines 26-68: the area mean of u over 5-15N, 110-120E
ScsmOnset(lat, lon, plev, area, tie_up) ==
    LET lev == PlevSelect(plev)
        w == AreaWeights(area, lat, lon, tie_up)
    IN  IF ~lev.ok THEN ReturnNone("scsm_onset", "-", lev.notices)
        ELSE Result("scsm_onset", "-", "", "value", lev.notices \cup w.notices, w.weights,
                    << Box(SelAnd(lon, Deg(110), Deg(120)), SelAnd(lat, Deg(5), Deg(15)),
                           Deg(110), Deg(120)) >>)

\* yim_precip, lines 39-45: the longitude bounds after the shift
PrecipBounds(region, same_object, lon) ==
    LET lona == regions_precip[region][2][1]
        lonb == regions_precip[region][2][2]
    IN  IF SeqMin(lon) < Deg(-10)
        THEN IF IsNot(region, "NAF", same_object)
             THEN <<lona - Deg(360), lonb - Deg(360)>>
             ELSE <<lona - Deg(360), lonb>>
        ELSE <<lona, lonb>>

PrecipLons_AndOnly(lon, lona, lonb) == SelAnd(lon, lona, lonb)

\* yim_precip, lines 48-51
PrecipLons(lon, lona, lonb) ==
    IF lonb > lona THEN SelAnd(lon, lona, lonb) ELSE SelOr(lon, lona, lonb)

\* yim_precip, lines 36-76
YimPrecip(lat, lon, area, region, same_object, tie_up) ==
    LET b == PrecipBounds(region, same_object, lon)
        lata == regions_precip[region][1][1]
        latb == regions_precip[region][1][2]
        w == AreaWeights(area, lat, lon, tie_up)
    IN  Result("yim_precip", region, "", "value", w.notices, w.weights,
               << Box(PrecipLons(lon, b[1], b[2]), SelAnd(lat, lata, latb), b[1], b[2]) >>)

\* yim_vort, lines 37-99
YimVort(lat, lon, plev, area, region, same_object, tie_up) ==
    LET lev == PlevSelect(plev)
        r == regions_vort[region]
        shift == IF SeqMin(lon) < Deg(-10) THEN Deg(360) ELSE 0
        w == AreaWeights(area, lat, lon, tie_up)
        notices == lev.notices \cup (IF shift # 0 THEN {"check"} ELSE {})
    IN  IF ~lev.ok THEN ReturnNone("yim_vort", region, lev.notices)
        \* lon2a - 360. with lon2a = None
        ELSE IF shift # 0 /\ r[2] = NoBox THEN Raise("yim_vort", region, "TypeError", notices)
        ELSE LET box1 == Box(SelAnd(lon, r[1][2][1] - shift, r[1][2][2] - shift),
                             SelAnd(lat, r[1][1][1], r[1][1][2]),
                             r[1][2][1] - shift, r[1][2][2] - shift)
             IN  IF ~IsNot(region, "NAFSM", same_object)
                 THEN Result("yim_vort", region, "", "value", notices \cup w.notices,
                             w.weights, <<box1>>)
                 \* u.lon[i] >= lon2a with lon2a = None
                 ELSE IF r[2] = NoBox
                 THEN Raise("yim_vort", region, "TypeError", notices)
                 ELSE Result("yim_vort", region, "", "value", notices \cup w.notices,
                             w.weights,
                             << box1,
                                Box(SelAnd(lon, r[2][2][1] - shift, r[2][2][2] - shift),
                                    SelAnd(lat, r[2][1][1], r[2][1][2]),
                                    r[2][2][1] - shift, r[2][2][2] - shift) >>)

\* li_zhang, lines 71-74: rename_coords on u and v, then u.lat
LiZhang(plev) ==
    LET u == PlevSelect(plev)
    IN  IF ~u.ok THEN Raise("li_zhang", "-", "AttributeError", u.notices)
        ELSE Result("li_zhang", "-", "", "value", u.notices, "-", <<>>)

\* li_meiyu, lines 87-91: rename_coords on q and t, then t.lon[1]
LiMeiyu(plev) ==
    LET t == PlevSelect(plev)
    IN  IF ~t.ok THEN Raise("li_meiyu", "-", "AttributeError", t.notices)
        ELSE Result("li_meiyu", "-", "", "value", t.notices, "-", <<>>)

\* gao_onset, lines 117-125: rename_coords on q, t and u, then q/(1-q) in
\* equiv_pot_t_ams, then area_mean, which reads the undefined name u
GaoOnset(plev) ==
    LET q == PlevSelect(plev)
    IN  IF ~q.ok THEN Raise("gao_onset", "-", "TypeError", q.notices)
        ELSE Raise("gao_onset", "-", "NameError", q.notices)

(***************************************************************************)
(* Reducers: inputs and entry points                                       *)
(***************************************************************************)
LonSteps == {20, 30}
LonBases == {0, -180}
CoordDiffs == {0, 4, 5, -7, 11}
PlevArgs == {[in_dims |-> FALSE, punits |-> "Pa"], [in_dims |-> TRUE, punits |-> "Pa"],
             [in_dims |-> TRUE, punits |-> "hPa"], [in_dims |-> TRUE, punits |-> "mb"]}
PrecipKeys == {"IN", "WNP", "EA", "NAM", "NAF", "SAM", "SAF", "AUS"}
VortKeys == {"ISM", "WNPSM", "NASM", "NAFSM", "SASM", "SAFSM", "AUSSM"}

LatGrid == [i \in 1..8 |-> Deg(-30 + 10 * (i - 1))]
LonGrid(base, step, o) == [i \in 1..(360 \div step) |-> Deg(base + 5 * o + step * (i - 1))]

\* a cell-area coordinate: the field's, its first value moved by d, with
\* extra points appended
AreaCoord(coord, extra, d) ==
    [i \in 1..(Len(coord) + extra) |->
        IF i = 1 THEN coord[1] + d
        ELSE IF i <= Len(coord) THEN coord[i]
        ELSE coord[Len(coord)] + Deg(10) * (i - Len(coord))]

InitReduce ==
    /\ u_lat = LatGrid
    /\ \E base \in LonBases, step \in LonSteps, o \in 0..MaxOffset : u_lon = LonGrid(base, step, o)
    /\ u_plev \in PlevArgs
    /\ \/ areacell = [given |-> FALSE]
       \/ \E e \in {<<0, 0>>, <<1, 0>>, <<0, 1>>}, dlat \in CoordDiffs, dlon \in CoordDiffs :
             areacell = [given |-> TRUE, lat |-> AreaCoord(u_lat, e[1], dlat),
                         lon |-> AreaCoord(u_lon, e[2], dlon)]
    /\ red = [fn |-> NotCalled]
    /\ DetIdle /\ SmIdle /\ LzIdle /\ ScanIdle

wang_fan ==
    /\ red.fn = NotCalled
    /\ \E tie_up \in BOOLEAN : red' = WangFan(u_lat, u_lon, u_plev, areacell, tie_up)
    /\ UNCHANGED <<u_lat, u_lon, u_plev, areacell, detVars, smVars, lzVars, scanVars>>

scsm_onset ==
    /\ red.fn = NotCalled
    /\ \E tie_up \in BOOLEAN : red' = ScsmOnset(u_lat, u_lon, u_plev, areacell, tie_up)
    /\ UNCHANGED <<u_lat, u_lon, u_plev, areacell, detVars, smVars, lzVars, scanVars>>

yim_precip ==
    /\ red.fn = NotCalled
    /\ \E region \in PrecipKeys, same_object \in BOOLEAN, tie_up \in BOOLEAN :
          red' = YimPrecip(u_lat, u_lon, areacell, region, same_object, tie_up)
    /\ UNCHANGED <<u_lat, u_lon, u_plev, areacell, detVars, smVars, lzVars, scanVars>>

yim_vort ==
    /\ red.fn = NotCalled
    /\ \E region \in VortKeys, same_object \in BOOLEAN, tie_up \in BOOLEAN :
          red' = YimVort(u_lat, u_lon, u_plev, areacell, region, same_object, tie_up)
    /\ UNCHANGED <<u_lat, u_lon, u_plev, areacell, detVars, smVars, lzVars, scanVars>>

li_zhang ==
    /\ red.fn = NotCalled
    /\ red' = LiZhang(u_plev)
    /\ UNCHANGED <<u_lat, u_lon, u_plev, areacell, detVars, smVars, lzVars, scanVars>>

li_meiyu ==
    /\ red.fn = NotCalled
    /\ red' = LiMeiyu(u_plev)
    /\ UNCHANGED <<u_lat, u_lon, u_plev, areacell, detVars, smVars, lzVars, scanVars>>

gao_onset ==
    /\ red.fn = NotCalled
    /\ red' = GaoOnset(u_plev)
    /\ UNCHANGED <<u_lat, u_lon, u_plev, areacell, detVars, smVars, lzVars, scanVars>>

NextReduce ==
    \/ wang_fan \/ scsm_onset \/ yim_precip \/ yim_vort
    \/ li_zhang \/ li_meiyu \/ gao_onset

SpecReduce == InitReduce /\ [][NextReduce]_vars

(***************************************************************************)
(* Reducers: the claims                                                    *)
(***************************************************************************)
RedCalled == red.fn # NotCalled
RedReturned == RedCalled /\ red.raised = "" /\ red.returned = "value"
SeqSet(q) == {q[i] : i \in DOMAIN q}
Abs(d) == IF d < 0 THEN 0 - d ELSE d

\* C7: in yim_precip and yim_vort, a box whose longitude minimum is greater
\* than its maximum selects exactly the grid longitudes >= min together with
\* the grid longitudes <= max.
C7_WrapIsUnion ==
    (RedReturned /\ red.fn \in {"yim_precip", "yim_vort"}) =>
        \A n \in DOMAIN red.sel :
            red.sel[n].lona > red.sel[n].lonb =>
                SeqSet(red.sel[n].lons) =
                    {g \in SeqSet(u_lon) : g >= red.sel[n].lona}
                        \cup {g \in SeqSet(u_lon) : g <= red.sel[n].lonb}

\* NAF on a 0..360 grid: points on both sides of the meridian are selected
\* and the points between the bounds are not
C7_Witness ==
    /\ RedReturned /\ red.fn = "yim_precip" /\ red.region = "NAF"
    /\ red.sel[1].lona > red.sel[1].lonb
    /\ \E g \in SeqSet(red.sel[1].lons) : g >= red.sel[1].lona
    /\ \E g \in SeqSet(red.sel[1].lons) : g <= red.sel[1].lonb
    /\ \E g \in SeqSet(u_lon) : g \notin SeqSet(red.sel[1].lons)

\* the same grid on the 0..360 convention
GeoLon(g) == IF g < 0 THEN g + Deg(360) ELSE g
OnGrid360 == [i \in DOMAIN u_lon |-> GeoLon(u_lon[i])]

\* C8: for every region key of yim_precip and yim_vort, the points selected
\* on a -180..180 grid are, as geographic points (longitude + 360 where
\* negative), the points selected on the same grid given on 0..360.
C8_ConventionIndependent ==
    /\ (RedReturned /\ red.fn = "yim_precip") =>
          LET on360 == YimPrecip(u_lat, OnGrid360, areacell, red.region, TRUE, FALSE)
          IN  {GeoLon(g) : g \in SeqSet(red.sel[1].lons)} = SeqSet(on360.sel[1].lons)
    /\ (RedReturned /\ red.fn = "yim_vort") =>
          LET on360 == YimVort(u_lat, OnGrid360, u_plev, areacell, red.region, TRUE, FALSE)
          IN  \A n \in DOMAIN red.sel :
                 {GeoLon(g) : g \in SeqSet(red.sel[n].lons)} = SeqSet(on360.sel[n].lons)

\* the reducers the area-grid claim names, called with an area grid and a
\* pressure unit they accept
AreaFns == {"wang_fan", "yim_precip", "scsm_onset"}
AreaCase ==
    /\ RedCalled /\ red.fn \in AreaFns
    /\ areacell.given
    /\ (red.fn = "yim_precip" \/ PlevSelect(u_plev).ok)
LenMatch == Len(areacell.lat) = Len(u_lat) /\ Len(areacell.lon) = Len(u_lon)
CoordDiffSet ==
    {Abs(areacell.lat[i] - u_lat[i]) : i \in DOMAIN u_lat}
        \cup {Abs(areacell.lon[i] - u_lon[i]) : i \in DOMAIN u_lon}
FellBack == red.weights = "coslat" /\ AreaWarning \in red.notices /\ RedReturned
UsedArea == red.weights = "areacell" /\ AreaWarning \notin red.notices

\* C9 as stated: the area grid is used exactly when the axis lengths match
\* and every coordinate differs by no more than 0.01; otherwise the reducer
\* falls back to cosine weights, prints the notice and returns a result.
C9_Tolerance001 ==
    AreaCase =>
        IF LenMatch /\ \A d \in CoordDiffSet : d <= 10 THEN UsedArea ELSE FellBack

\* C9 as amended: the area grid is used when the axis lengths match and
\* every coordinate differs by less than 0.005; with a length mismatch or a
\* difference above 0.005 the reducer falls back to cosine weights, prints
\* the notice and returns a result.
C9_ToleranceHalf ==
    AreaCase =>
        /\ (LenMatch /\ \A d \in CoordDiffSet : d < 5) => UsedArea
        /\ (~LenMatch \/ \E d \in CoordDiffSet : d > 5) => FellBack
        /\ UsedArea \/ FellBack

\* a grid 0.007 off the field's, rejected, next to which the call returns
C9_Witness ==
    /\ AreaCase /\ LenMatch
    /\ \E d \in CoordDiffSet : d > 5 /\ d <= 10
    /\ \A d \in CoordDiffSet : d <= 10
    /\ FellBack

\* C10: an entry point that selects a pressure level, called with a pressure
\* axis and a unit other than Pa or hPa, prints the diagnostic and returns
\* None without raising.
PunitsFns == {"wang_fan", "yim_vort", "scsm_onset", "li_zhang", "li_meiyu", "gao_onset"}
C10_BadUnitsReturnNone ==
    (RedCalled /\ red.fn \in PunitsFns /\ u_plev.in_dims /\ u_plev.punits \notin {"Pa", "hPa"}) =>
        /\ PunitsError \in red.notices
        /\ red.returned = "None"
        /\ red.raised = ""

\* the call yim_vort(u, region='NAFSM'), the key given as the literal
NafsmCall ==
    /\ RedCalled /\ red.fn = "yim_vort" /\ red.region = "NAFSM"
    /\ PlevSelect(u_plev).ok
    /\ \E tie_up \in BOOLEAN :
          red = YimVort(u_lat, u_lon, u_plev, areacell, "NAFSM", TRUE, tie_up)

\* C11: yim_vort with region 'NAFSM' does not fail and returns the mean over
\* box 1 alone (300..350E), on a 0..360 grid and on a grid whose longitude
\* minimum is below -10.
C11_NafsmBoxOneOnly ==
    NafsmCall =>
        /\ red.raised = ""
        /\ red.returned = "value"
        /\ Len(red.sel) = 1
        /\ {GeoLon(g) : g \in SeqSet(red.sel[1].lons)} =
               {g \in SeqSet(OnGrid360) : g >= Deg(300) /\ g <= Deg(350)}

(***************************************************************************)
(* li_zhang, conditions A and B (lines 95-140) for one grid cell.          *)
(*                                                                         *)
(* A season is [L, cond, d]: its length in time steps, cond[i] = beta[i] > *)
(* beta_julaug/2, and d[i] = arctan(b1) - arctan(b2) at step i, in a unit  *)
(* that keeps its sign and order (argmax reads nothing else of it).        *)
(***************************************************************************)
MaxLzLen == 36              \* longest season, in time steps
Margin == 10                \* range(10, len(time) - 10) of condition B
StepsPerPentad == 5         \* np.round((argmax + 1) / 5.)

\* cond.isel(time=range(i, i+p)).sum('time') == p
WindowFrom(cond, i, p) == \A k \in i..(i+p-1) : cond[k]
\* cond.isel(time=range(i, i-p, -1)).sum('time') == p
WindowUpTo(cond, i, p) == \A k \in (i-p+1)..i : cond[k]

\* lines 98-103: a[:,:,i] for i in range(L-p), then isel(range(1, L-p)), min
CondAOnset(L, p, cond) ==
    LET found == {i \in 0..(L-p-1) : WindowFrom(cond, i, p)}
        kept == {i \in found : 1 <= i /\ i < L - p}
    IN  IF kept = {} THEN NaN ELSE F(Min(kept))

\* lines 120-125: a[:,:,i] for i in range(L-1, p-1, -1), then
\* isel(range(p, L)), max
CondAWithdrawal(L, p, cond) ==
    LET found == {i \in p..(L-1) : WindowUpTo(cond, i, p)}
        kept == {i \in found : p <= i /\ i < L}
    IN  IF kept = {} THEN NaN ELSE F(Max(kept))

\* a_mask = i >= a.values and a_mask = i <= a.values: False where a is NaN
MaskGeq(i, a) == IsNum(a) /\ i >= a.num
MaskLeq(i, a) == IsNum(a) /\ i <= a.num

\* lines 106-111 and 128-133: b is zero outside range(10, L-10), and
\* (arctan(b1) - arctan(b2)) * a_mask inside it
CondB(L, d, a_mask) ==
    [i \in 0..(L-1) |->
        IF Margin <= i /\ i < L - Margin THEN (IF a_mask[i] THEN d[i] ELSE 0) ELSE 0]

\* b.argmax('time'): the first index of the maximum
ArgMaxTime(L, b) == Min({i \in 0..(L-1) : \A j \in 0..(L-1) : b[j] <= b[i]})

\* np.round(k / 5.) for an integer k >= 0 (k/5 is never half-way)
RoundPentad(k) == (2 * k + StepsPerPentad) \div (2 * StepsPerPentad)

\* lines 95-140
LiZhangConditions(in) ==
    LET p == in.p
        on == in.beta_onset
        wd == in.beta_withdrawal
        a_on == CondAOnset(on.L, p, on.cond)
        b_on == CondB(on.L, on.d, [i \in 0..(on.L-1) |-> MaskGeq(i, a_on)])
        a_wd == CondAWithdrawal(wd.L, p, wd.cond)
        b_wd == CondB(wd.L, wd.d, [i \in 0..(wd.L-1) |-> MaskLeq(i, a_wd)])
    IN  [fn |-> "li_zhang",
         a_onset |-> a_on,
         b_onset |-> ArgMaxTime(on.L, b_on),
         onset |-> F(RoundPentad(ArgMaxTime(on.L, b_on) + 1)),
         a_withdrawal |-> a_wd,
         b_withdrawal |-> ArgMaxTime(wd.L, b_wd),
         withdrawal |-> F(RoundPentad(ArgMaxTime(wd.L, b_wd) + 1 + in.offset))]

(***************************************************************************)
(* li_zhang: inputs and entry point                                        *)
(***************************************************************************)
LzLens == {22} \cup (36..MaxLzLen)
PVals == {3, 15}
OffsetVals == {243}
SlopeVals == {-1, 1}
SpikeVals == {-2, 2}

\* beta above the threshold on the steps s..e-1
CondRuns(L, p) ==
    {[i \in 0..(L-1) |-> s <= i /\ i < e] :
        s \in {0, 1, 20, L - p, L}, e \in {20 + p - 1, L - 1, L}}

\* the arctan difference v at every step but one
SlopeChanges(L) ==
    {[i \in 0..(L-1) |-> IF i = k THEN w ELSE v] :
        k \in {12, L - Margin - 1}, v \in SlopeVals, w \in SpikeVals}

Seasons(L, p) ==
    {[L |-> L, cond |-> c, d |-> d] : c \in CondRuns(L, p), d \in SlopeChanges(L)}

InitLiZhang ==
    /\ \E L \in LzLens, p \in PVals, offset \in OffsetVals :
          /\ L >= p + 2
          /\ lz_in \in [p : {p}, offset : {offset},
                        beta_onset : Seasons(L, p), beta_withdrawal : Seasons(L, p)]
    /\ lz = [fn |-> NotCalled]
    /\ DetIdle /\ SmIdle /\ RedIdle /\ ScanIdle

li_zhang_conditions ==
    /\ lz.fn = NotCalled
    /\ lz' = LiZhangConditions(lz_in)
    /\ UNCHANGED <<lz_in, detVars, smVars, redVars, scanVars>>

NextLiZhang == li_zhang_conditions

SpecLiZhang == InitLiZhang /\ [][NextLiZhang]_vars

(***************************************************************************)
(* li_zhang: the claims                                                    *)
(***************************************************************************)
LzCalled == lz.fn # NotCalled
LzOn == lz_in.beta_onset
LzWd == lz_in.beta_withdrawal

\* the steps at which a full window of p steps above the threshold starts
\* (onset season) or ends (withdrawal season)
OnsetWindows == {i \in 0..(LzOn.L - lz_in.p) : WindowFrom(LzOn.cond, i, lz_in.p)}
WithdrawalWindows == {i \in (lz_in.p - 1)..(LzWd.L - 1) : WindowUpTo(LzWd.cond, i, lz_in.p)}
InMargin(L, i) == Margin <= i /\ i < L - Margin

\* C12: the Condition-A onset index is the smallest step i of the onset
\* season, step 0 and the last step at which a window of p steps still fits
\* included, from which beta stays above the threshold for p steps.
C12_FirstSustainedStep ==
    (LzCalled /\ OnsetWindows # {}) => lz.a_onset = F(Min(OnsetWindows))

\* C13: when Condition A admits a step inside the 10-step margin, the step
\* Condition B selects is inside the margin and admitted by Condition A
\* (onset: at or after the Condition-A index; withdrawal: at or before it).
C13_SelectedStepAdmitted ==
    LzCalled =>
        /\ (\E i \in 0..(LzOn.L-1) : InMargin(LzOn.L, i) /\ MaskGeq(i, lz.a_onset)) =>
              /\ InMargin(LzOn.L, lz.b_onset)
              /\ MaskGeq(lz.b_onset, lz.a_onset)
        /\ (\E i \in 0..(LzWd.L-1) : InMargin(LzWd.L, i) /\ MaskLeq(i, lz.a_withdrawal)) =>
              /\ InMargin(LzWd.L, lz.b_withdrawal)
              /\ MaskLeq(lz.b_withdrawal, lz.a_withdrawal)

\* C14: a cell whose beta never stays above the threshold for p consecutive
\* steps has onset NaN (onset season) and withdrawal NaN (withdrawal season).
C14_NeverSustainedUndefined ==
    LzCalled =>
        /\ OnsetWindows = {} => lz.onset = NaN
        /\ WithdrawalWindows = {} => lz.withdrawal = NaN

(***************************************************************************)
(* The onset scans of scsm_onset (wang_etal_2004, lines 71-79) and of      *)
(* gao_onset (gao_etal_2001, lines 125-140), on the area-mean series of    *)
(* one year.  Series are sequences over the pentads of the input, labelled *)
(* by the pentad coordinate.                                               *)
(***************************************************************************)
MaxPentads == 6             \* longest pentad axis of the scans' input
FirstPentad == 24           \* scsm_onset: u.pentad[i] >= 24
ThetaThreshold == 335       \* gao_onset: th_e_mean > 335.

RECURSIVE SeqSum(_)
SeqSum(q) == IF q = <<>> THEN 0 ELSE Head(q) + SeqSum(Tail(q))

\* python's q[i:j] for 0 <= i <= j, clipped to the length of q
Slice(q, i, j) == SubSeq(q, i + 1, IF j > Len(q) THEN Len(q) ELSE j)

\* u_mean.sel(pentad=labels).values
SelPentad(in, series, labels) ==
    [n \in 1..Len(labels) |-> series[labels[n] - in.pentad[1] + 1]]

Found(fn, onset) == [fn |-> fn, raised |-> "", found |-> TRUE, onset |-> onset]
NotFound(fn) == [fn |-> fn, raised |-> "", found |-> FALSE, onset |-> 0]
ScanRaised(fn, exc) == [fn |-> fn, raised |-> exc, found |-> FALSE, onset |-> 0]

\* line 73-75 at position i (zero-based) of the list pentads
ScsmTest(in, pentads, i) ==
    LET window == SelPentad(in, in.u_mean, Slice(pentads, i, i + 4))
    IN  /\ SelPentad(in, in.u_mean, <<pentads[i + 1]>>)[1] > 0
        /\ SeqSum(window) > 1
        /\ Cardinality({n \in 1..Len(window) : window[n] > 0}) >= 2

\* lines 48 and 71-79
ScsmLoop(in) ==
    LET pentads == SelectSeq(in.pentad, LAMBDA x : x >= FirstPentad)
        hits == {i \in 0..(Len(pentads)-1) : ScsmTest(in, pentads, i)}
    IN  IF hits = {} THEN NotFound("scsm_onset")
        ELSE Found("scsm_onset", pentads[Min(hits) + 1])

\* area_mean, line 75: the name u is neither a parameter nor a global of
\* the module
AreaMean(series) == [raised |-> "NameError", values |-> <<>>]

\* lines 127-140 on the series th_e_mean and u_mean of N pentads; isel at a
\* position >= N raises IndexError
RECURSIVE GaoLoop(_, _, _, _)
GaoLoop(in, th_e_mean, u_mean, i) ==
    LET N == Len(u_mean)
        u_pos == [n \in 1..N |-> IF u_mean[n] > 0 THEN 1 ELSE 0]
        At(k) == u_pos[k + 1]
        next == GaoLoop(in, th_e_mean, u_mean, i + 1)
    IN  IF i >= N THEN NotFound("gao_onset")
        ELSE IF ~(th_e_mean[i + 1] > ThetaThreshold /\ At(i) > 0) THEN next
        ELSE IF i + 1 >= N THEN ScanRaised("gao_onset", "IndexError")
        ELSE IF ~(At(i + 1) > 0) THEN next
        ELSE IF i + 2 >= N THEN ScanRaised("gao_onset", "IndexError")
        ELSE IF At(i + 2) > 0
             THEN IF i + 5 >= N THEN ScanRaised("gao_onset", "IndexError")
                  ELSE IF At(i + 3) + At(i + 4) + At(i + 5) > 0
                       THEN Found("gao_onset", in.pentad[i + 1])
                       \* elif (u_pos.isel(pentad=i+2) < 0.): u_pos is 0. or 1.
                       ELSE next
             ELSE IF At(i + 2) < 0
                  THEN IF i + 3 >= N THEN ScanRaised("gao_onset", "IndexError")
                       ELSE IF At(i + 3) > 0 THEN Found("gao_onset", in.pentad[i + 1])
                       ELSE next
                  ELSE next

\* gao_onset, lines 125-140
GaoOnsetScan(in) ==
    LET th_e_mean == AreaMean(in.th_e_mean)
        u_mean == AreaMean(in.u_mean)
    IN  IF th_e_mean.raised # "" THEN ScanRaised("gao_onset", th_e_mean.raised)
        ELSE IF u_mean.raised # "" THEN ScanRaised("gao_onset", u_mean.raised)
        ELSE GaoLoop(in, th_e_mean.values, u_mean.values, 0)

(***************************************************************************)
(* Onset scans: inputs and entry points                                    *)
(***************************************************************************)
UVals == {-1, 1, 2}
ThetaVals == {ThetaThreshold - 1, ThetaThreshold + 1}
PentadStarts == {22, 24}

InitScan ==
    /\ \E N \in 1..MaxPentads, first \in PentadStarts, warm \in 0..MaxPentads :
          /\ warm <= N
          /\ scan_in \in [pentad : {[n \in 1..N |-> first + n - 1]},
                          u_mean : [1..N -> UVals],
                          th_e_mean : {th \in [1..N -> ThetaVals] :
                                          \A n \in 1..N : th[n] > ThetaThreshold <=> n > warm}]
    /\ scan = [fn |-> NotCalled]
    /\ DetIdle /\ SmIdle /\ RedIdle /\ LzIdle

scsm_onset_loop ==
    /\ scan.fn = NotCalled
    /\ scan' = ScsmLoop(scan_in)
    /\ UNCHANGED <<scan_in, detVars, smVars, redVars, lzVars>>

gao_onset_scan ==
    /\ scan.fn = NotCalled
    /\ scan' = GaoOnsetScan(scan_in)
    /\ UNCHANGED <<scan_in, detVars, smVars, redVars, lzVars>>

NextScan == scsm_onset_loop \/ gao_onset_scan

SpecScan == InitScan /\ [][NextScan]_vars

(***************************************************************************)
(* Onset scans: the claims                                                 *)
(***************************************************************************)
ScanN == Len(scan_in.pentad)
ScanU(n) == scan_in.u_mean[n]

\* the positions n (one-based) with pentad label >= 24 at which u > 0, the
\* mean of u over the pentad and the next 3 (those the series has) is > 1
\* and u > 0 in at least 3 of them
WangOnsets ==
    {n \in 1..ScanN :
        LET last == IF n + 3 > ScanN THEN ScanN ELSE n + 3
            window == n..last
        IN  /\ scan_in.pentad[n] >= FirstPentad
            /\ ScanU(n) > 0
            /\ SeqSum([k \in 1..(last - n + 1) |-> ScanU(n + k - 1)]) > Cardinality(window)
            /\ Cardinality({k \in window : ScanU(k) > 0}) >= 3}

\* C17: scsm_onset returns the earliest pentad P >= 24 with u(P) > 0, mean
\* of u over P..P+3 greater than 1 and u > 0 in at least 3 of those 4
\* pentads, and None when no pentad meets the three conditions.
C17_WangOnset ==
    (scan.fn = "scsm_onset") =>
        /\ scan.raised = ""
        /\ IF WangOnsets = {} THEN ~scan.found
           ELSE scan.found /\ scan.onset = scan_in.pentad[Min(WangOnsets)]

\* the positions n (one-based) that meet the test of gao_onset: theta-e
\* above 335 K, u positive at n and n+1, and u positive at n+2 and at one of
\* n+3..n+5, or u not positive at n+2 and positive at n+3
GaoOnsets ==
    LET Pos(k) == k <= ScanN /\ ScanU(k) > 0
    IN  {n \in 1..ScanN :
            /\ scan_in.th_e_mean[n] > ThetaThreshold
            /\ Pos(n) /\ Pos(n + 1)
            /\ \/ Pos(n + 2) /\ (Pos(n + 3) \/ Pos(n + 4) \/ Pos(n + 5))
               \/ ~Pos(n + 2) /\ Pos(n + 3)}

\* C18: gao_onset returns the first pentad, in scan order, that meets the
\* test (by either of its two alternatives).
C18_GaoOnset ==
    (scan.fn = "gao_onset" /\ GaoOnsets # {}) =>
        scan.found /\ scan.onset = scan_in.pentad[Min(GaoOnsets)]

\* C19: for a series of any length gao_onset completes its scan and returns
\* a pentad label or None; it never stops with an error.
C19_GaoCompletes ==
    (scan.fn = "gao_onset") => scan.raised = ""

====
